---- MODULE Spec2Model ----
(***************************************************************************)
(* State-machine model of fetch_yahoo_or_nse (src/utils_fetch.py): one     *)
(* request walking through the primary retry loop, the fallback configs    *)
(* and the yf.download strategy.  The provider is the environment: every   *)
(* call is answered by a DataFrame (possibly empty), by an exception, or   *)
(* is never answered; a request of a primary call may also be answered by  *)
(* an HTTP status the Retry strategy of the session sends again.           *)
(***************************************************************************)
EXTENDS Integers, Sequences, FiniteSets, TLC

VARIABLES
    request,      \* the caller's arguments (symbol, period, interval)
    capability,   \* whether an API credential is configured in the environment
    symbol,       \* local `symbol` (rebound by the normalization)
    max_retries,  \* parameter max_retries
    pause,        \* parameter pause
    pc,           \* position in the function body
    attempt,      \* loop variable of the primary retry loop
    cfg,          \* 1-based index of the current entry of fallback_configs
    df,           \* local `df`: the last DataFrame a call returned
    result,       \* what the function returned
    log,          \* the provider calls issued so far, in order
    sleeps,       \* the time.sleep calls so far, in order
    sent,         \* HTTP requests sent so far for the call in flight
    cur,          \* which invocation the variables above belong to
    peer,         \* the frame of a second, concurrent invocation (switched out)
    dash          \* the dashboard script's locals (src/app.py)

vars == << request, capability, symbol, max_retries, pause, pc, attempt, cfg,
           df, result, log, sleeps, sent, cur, peer, dash >>

----------------------------------------------------------------------------
\* Bounds of the model

MaxRetries == 2     \* max_retries ranges over -1 .. MaxRetries
MaxBars == 2        \* a DataFrame holds at most MaxBars rows
MaxTs == 2          \* row timestamps range over 1 .. MaxTs
MaxSymLen == 4      \* symbols of the normalization check have at most MaxSymLen characters
MaxPrice == 2       \* closing prices of the dashboard range over 1 .. MaxPrice
MaxCloses == 2      \* the dashboard's histories hold at most MaxCloses rows
MaxRetryAfter == 7  \* the largest Retry-After header the provider sends, in seconds

----------------------------------------------------------------------------
\* Values

Max(a, b) == IF a >= b THEN a ELSE b

Min(a, b) == IF a <= b THEN a ELSE b

\* Characters that matter to the normalization, and the two markers it tests.
Alphabet == {"R", ".", "N", "S", "^"}
DotNS == << ".", "N", "S" >>
Caret == << "^" >>

\* str.endswith / str.startswith on character sequences
EndsWith(s, suf) ==
    /\ Len(s) >= Len(suf)
    /\ SubSeq(s, Len(s) - Len(suf) + 1, Len(s)) = suf

StartsWith(s, pre) ==
    /\ Len(s) >= Len(pre)
    /\ SubSeq(s, 1, Len(pre)) = pre

\* Mutant: the ".NS" test is dropped, so an already suffixed symbol is suffixed again.
NormalizeSymbolNoSuffixTest(s) ==
    IF StartsWith(s, Caret) THEN s ELSE s \o DotNS

\* lines 11-12: append ".NS" unless the symbol ends in ".NS" or starts with "^"
NormalizeSymbol(s) ==
    IF ~(EndsWith(s, DotNS) \/ StartsWith(s, Caret)) THEN s \o DotNS ELSE s

\* All character sequences of length <= n over the alphabet
SeqsUpTo(S, n) == UNION { [1..k -> S] : k \in 0..n }

Pauses == {1, 3}

\* A DataFrame is the sequence of its row timestamps, in the provider's order.
Frames == SeqsUpTo(1..MaxTs, MaxBars)

NoFrame == << >>

\* Function results
Unset      == [tag |-> "unset", rows |-> << >>]
NoneValue  == [tag |-> "None", rows |-> << >>]
Frame(d)   == [tag |-> "DataFrame", rows |-> d]

\* The base class of each exception class the provider libraries and the
\* interpreter raise (requests.exceptions for the transport ones)
ClassBase ==
    [ c \in { "Exception", "KeyboardInterrupt", "SystemExit", "GeneratorExit",
              "ArithmeticError", "ZeroDivisionError", "AssertionError",
              "AttributeError", "ImportError", "LookupError", "IndexError",
              "KeyError", "NameError", "OSError", "TimeoutError",
              "RuntimeError", "NotImplementedError", "TypeError", "ValueError",
              "RequestException", "ConnectionError", "HTTPError", "Timeout",
              "ConnectTimeout", "ReadTimeout", "RetryError", "JSONDecodeError" } |->
        CASE c \in {"Exception", "KeyboardInterrupt", "SystemExit", "GeneratorExit"}
                 -> "BaseException"
          [] c = "ZeroDivisionError" -> "ArithmeticError"
          [] c \in {"IndexError", "KeyError"} -> "LookupError"
          [] c \in {"TimeoutError", "RequestException"} -> "OSError"
          [] c = "NotImplementedError" -> "RuntimeError"
          [] c \in {"ConnectionError", "HTTPError", "Timeout", "RetryError"}
                 -> "RequestException"
          [] c \in {"ConnectTimeout", "ReadTimeout"} -> "Timeout"
          [] c = "JSONDecodeError" -> "ValueError"
          [] OTHER -> "Exception" ]

\* A class not listed is one a library defines, derived from Exception.
Base(c) == IF c \in DOMAIN ClassBase THEN ClassBase[c] ELSE "Exception"

\* issubclass(c, k)
RECURSIVE IsSubclass(_, _)
IsSubclass(c, k) ==
    \/ c = k
    \/ c # "BaseException" /\ IsSubclass(Base(c), k)

\* Exceptions a provider call raises (all subclasses of Exception)
AdapterErrors ==
    { "ConnectionError", "ValueError", "KeyError", "AttributeError",
      "RuntimeError", "TypeError", "TimeoutError", "Timeout", "RetryError" }

\* Mutant: the handlers name one exception class only.
CatchesOnlyValueError(e) == e = "ValueError"

\* Mutant: the handlers catch nothing (the call is left outside the try).
CatchesNothing(e) == FALSE

\* lines 44, 68, 82: `except Exception` catches every subclass of Exception
Catches(e) == IsSubclass(e, "Exception")

\* Mutant: the first two configs are listed in the other order.
fallback_configs_reordered ==
    << [period |-> "1mo", interval |-> "1d"],
       [period |-> "5d",  interval |-> "1d"],
       [period |-> "3mo", interval |-> "1wk"] >>

\* lines 52-56: fallback_configs
fallback_configs ==
    << [period |-> "5d",  interval |-> "1d"],
       [period |-> "1mo", interval |-> "1d"],
       [period |-> "3mo", interval |-> "1wk"] >>

\* line 71: time.sleep(2)
FallbackPause == 2

\* No call site passes a timeout argument (lines 36, 62, 76).
NoTimeout == "unset"

\* lines 21-25: Retry(total=3, backoff_factor=1,
\*                   status_forcelist=[429, 500, 502, 503, 504])
RetryTotal == 3
backoff_factor == 1
status_forcelist == {429, 500, 502, 503, 504}

\* Defaults of the Retry class that line 21 leaves alone: the statuses whose
\* Retry-After header is honoured, and the cap on one backoff.
RetryAfterStatusCodes == {413, 429, 503}
BackoffMax == 120

\* The Retry-After header of an answer: absent, or a number of seconds
NoHeader == -1
RetryAfterHeaders == {NoHeader, 0, MaxRetryAfter}

\* Statuses the provider answers that the Retry strategy may send again
RetryStatuses == status_forcelist \cup RetryAfterStatusCodes

RECURSIVE Pow2(_)
Pow2(n) == IF n <= 0 THEN 1 ELSE 2 * Pow2(n - 1)

\* Retry.get_backoff_time after n consecutive retried answers: nothing
\* before the first re-send, then backoff_factor * 2^(n-1), capped
get_backoff_time(n) ==
    IF n <= 1 THEN 0 ELSE Min(BackoffMax, backoff_factor * Pow2(n - 1))

----------------------------------------------------------------------------
\* Provider calls

\* One provider call as the code issues it; `session` tells whether the
\* custom requests.Session of lines 20-33 is attached.
Call(kind, n, sym, p, i, sess) ==
    [ kind |-> kind, attempt |-> n, symbol |-> sym, period |-> p,
      interval |-> i, session |-> sess, timeout |-> NoTimeout,
      outcome |-> "pending" ]

\* What the provider answered, as the spec's three outcomes classify it.
Classify(d) == IF Len(d) = 0 THEN "empty" ELSE "series"

\* One time.sleep call: where it is made, for how long, and how many provider
\* calls had been issued before it.
Sleep(site, secs) == [site |-> site, secs |-> secs, after |-> Len(log)]

\* Record the answer to the call in flight (always the last one issued).
Answer(o) == [log EXCEPT ![Len(log)].outcome = o]

\* Calls issued and not yet answered
InFlight == Cardinality({ i \in DOMAIN log : log[i].outcome = "pending" })

\* Calls of one kind, in order
RECURSIVE SelectKind(_, _)
SelectKind(l, k) ==
    IF l = << >> THEN << >>
    ELSE IF Head(l).kind = k THEN << Head(l) >> \o SelectKind(Tail(l), k)
         ELSE SelectKind(Tail(l), k)

PrimaryCalls  == SelectKind(log, "primary")
FallbackCalls == SelectKind(log, "fallback")
DownloadCalls == SelectKind(log, "download")

\* Mutant: the emptiness test always answers "not empty".
DfNeverEmpty(d) == FALSE

\* lines 38, 64, 78: df.empty
DfEmpty(d) == Len(d) = 0

\* Mutant: the loop test is inclusive, so the body runs once even for m = 0.
RangeHasNextInclusive(a, m) == a <= m

\* Mutant: the retry loop runs one iteration short.
RangeHasNextShort(a, m) == a + 1 <= m - 1

\* lines 17, 58: does range(1, m + 1) / the list hold a value after a?
RangeHasNext(a, m) == a + 1 <= m

----------------------------------------------------------------------------
\* Initial state: the function has just been called.

\* No second invocation is running.
NoPeer == [pc |-> "absent"]

\* The dashboard script is not running.
DashIdle == [pc |-> "idle"]

\* The calls of the main specification: a bare symbol, a suffixed one and
\* an index, each with its own (period, interval) pair, pause and
\* environment; the last pair is unsupported upstream
Scenarios ==
    { [request |-> [symbol |-> << "R" >>, period |-> "1d", interval |-> "1m"],
       pause |-> 1, capability |-> FALSE],
      [request |-> [symbol |-> << "R", ".", "N", "S" >>, period |-> "1mo",
                    interval |-> "1d"],
       pause |-> 3, capability |-> TRUE],
      [request |-> [symbol |-> << "^", "N" >>, period |-> "2y", interval |-> "1m"],
       pause |-> 3, capability |-> FALSE] }

Requests == { sc.request : sc \in Scenarios }

InitWith(reqs) ==
    /\ request \in reqs
    /\ capability \in BOOLEAN
    /\ symbol = request.symbol
    /\ max_retries \in -1 .. MaxRetries
    /\ pause \in Pauses
    /\ pc = "start"
    /\ attempt = 0
    /\ cfg = 0
    /\ df = NoFrame
    /\ result = Unset
    /\ log = << >>
    /\ sleeps = << >>
    /\ sent = 0
    /\ cur = 1
    /\ peer = NoPeer
    /\ dash = DashIdle

Init ==
    /\ InitWith(Requests)
    /\ \E sc \in Scenarios :
          /\ request = sc.request
          /\ pause = sc.pause
          /\ capability = sc.capability

----------------------------------------------------------------------------
\* Steps of fetch_yahoo_or_nse

params == << request, capability, max_retries, pause, cur, peer, dash >>

\* lines 11-14
Normalize ==
    /\ pc = "start"
    /\ symbol' = NormalizeSymbol(symbol)
    /\ pc' = "loop"
    /\ UNCHANGED << params, attempt, cfg, df, result, log, sleeps, sent >>

\* line 17: for attempt in range(1, max_retries + 1)
PrimaryLoop ==
    /\ pc = "loop"
    /\ IF RangeHasNext(attempt, max_retries)
         THEN attempt' = attempt + 1 /\ pc' = "primary"
         ELSE attempt' = attempt /\ pc' = "fallback"
    /\ UNCHANGED << params, symbol, cfg, df, result, log, sleeps, sent >>

\* Mutant: the call is made with the caller's symbol, not the normalized one.
PrimaryCallRawSymbol ==
    /\ pc = "primary"
    /\ log' = Append(log, Call("primary", attempt, request.symbol, request.period,
                               request.interval, TRUE))
    /\ sent' = 1
    /\ pc' = "primary_wait"
    /\ UNCHANGED << params, symbol, attempt, cfg, df, result, sleeps >>

\* lines 20-36: build the session and issue ticker.history(period, interval)
PrimaryCall ==
    /\ pc = "primary"
    /\ log' = Append(log, Call("primary", attempt, symbol, request.period,
                               request.interval, TRUE))
    /\ sent' = 1
    /\ pc' = "primary_wait"
    /\ UNCHANGED << params, symbol, attempt, cfg, df, result, sleeps >>

\* Mutant: the `return df` of line 40 is missing; the loop carries on.
PrimaryReturnKeepsGoing(d) ==
    /\ pc = "primary_wait"
    /\ df' = d
    /\ log' = Answer(Classify(d))
    /\ pc' = "backoff"
    /\ UNCHANGED << params, symbol, attempt, cfg, result, sleeps, sent >>

\* lines 36-42: the call returns a DataFrame
PrimaryReturn(d) ==
    /\ pc = "primary_wait"
    /\ df' = d
    /\ log' = Answer(Classify(d))
    /\ IF ~DfEmpty(d)
         THEN result' = Frame(d) /\ pc' = "done"
         ELSE result' = result /\ pc' = "backoff"
    /\ UNCHANGED << params, symbol, attempt, cfg, sleeps, sent >>

\* Re-sends the Retry strategy of the call in flight has left
Remaining == RetryTotal - (sent - 1)

\* Retry.is_retry: a status of the force list, or, while re-sends are left,
\* a status of RetryAfterStatusCodes that carries a Retry-After header
IsRetry(status, h) ==
    \/ status \in status_forcelist
    \/ Remaining # 0 /\ h # NoHeader /\ status \in RetryAfterStatusCodes

\* Retry.sleep: the Retry-After header when it names a positive delay,
\* else the backoff for the number of answers retried so far
RetrySleep(h) == IF h > 0 THEN h ELSE get_backoff_time(sent)

\* Mutant: the retry budget is compared off by one.
PrimaryTransportRetryOneMore(status, h) ==
    /\ pc = "primary_wait"
    /\ log[Len(log)].session
    /\ IsRetry(status, h)
    /\ sent - 1 <= RetryTotal
    /\ IF RetrySleep(h) > 0
         THEN /\ sleeps' = Append(sleeps, Sleep("transport", RetrySleep(h)))
              /\ pc' = "transport_sleeping"
              /\ sent' = sent
         ELSE /\ sleeps' = sleeps
              /\ pc' = pc
              /\ sent' = sent + 1
    /\ UNCHANGED << params, symbol, attempt, cfg, df, result, log >>

\* lines 21-28, 36: a request of the call is answered by a status the Retry
\* strategy mounted on the session retries and re-sends are left: the
\* strategy sleeps (Retry-After, or its backoff from the second re-send on)
\* before the request goes out again, or re-sends at once
PrimaryTransportRetry(status, h) ==
    /\ pc = "primary_wait"
    /\ log[Len(log)].session
    /\ IsRetry(status, h)
    /\ sent - 1 < RetryTotal
    /\ IF RetrySleep(h) > 0
         THEN /\ sleeps' = Append(sleeps, Sleep("transport", RetrySleep(h)))
              /\ pc' = "transport_sleeping"
              /\ sent' = sent
         ELSE /\ sleeps' = sleeps
              /\ pc' = pc
              /\ sent' = sent + 1
    /\ UNCHANGED << params, symbol, attempt, cfg, df, result, log >>

\* lines 21-28, 36: the sleep of the Retry strategy returns and the request
\* is sent again
TransportWake ==
    /\ pc = "transport_sleeping"
    /\ sent' = sent + 1
    /\ pc' = "primary_wait"
    /\ UNCHANGED << params, symbol, attempt, cfg, df, result, log, sleeps >>

\* RetryError is what the session raises when an answer of the force list
\* finds no re-send left; any other exception can end any call.
CanRaise(e) ==
    e = "RetryError" => (log[Len(log)].session /\ sent = 1 + RetryTotal)

\* lines 44-45: the call raises
PrimaryRaise(e) ==
    /\ pc = "primary_wait"
    /\ CanRaise(e)
    /\ log' = Answer("raise")
    /\ pc' = IF Catches(e) THEN "backoff" ELSE "raised"
    /\ UNCHANGED << params, symbol, attempt, cfg, df, result, sleeps, sent >>

\* line 36: the provider never responds and no timeout ends the call
PrimaryHang ==
    /\ pc = "primary_wait"
    /\ log[Len(log)].timeout = NoTimeout
    /\ pc' = "hung"
    /\ UNCHANGED << params, symbol, attempt, cfg, df, result, log, sleeps, sent >>

\* Mutant: a failed attempt gives up on the primary at once (a `break`).
BackoffGivesUp ==
    /\ pc = "backoff"
    /\ pc' = "fallback"
    /\ UNCHANGED << params, symbol, attempt, cfg, df, result, log, sleeps, sent >>

\* Mutant: the sleep is not guarded by `attempt < max_retries`.
BackoffAlwaysSleeps ==
    /\ pc = "backoff"
    /\ sleeps' = Append(sleeps, Sleep("backoff", pause))
    /\ pc' = "backoff_sleeping"
    /\ UNCHANGED << params, symbol, attempt, cfg, df, result, log, sent >>

\* lines 47-49
Backoff ==
    /\ pc = "backoff"
    /\ IF attempt < max_retries
         THEN sleeps' = Append(sleeps, Sleep("backoff", pause)) /\ pc' = "backoff_sleeping"
         ELSE sleeps' = sleeps /\ pc' = "loop"
    /\ UNCHANGED << params, symbol, attempt, cfg, df, result, log, sent >>

\* line 49: time.sleep(pause) returns
BackoffWake ==
    /\ pc = "backoff_sleeping"
    /\ pc' = "loop"
    /\ UNCHANGED << params, symbol, attempt, cfg, df, result, log, sleeps, sent >>

\* line 58: for config in fallback_configs
FallbackLoop ==
    /\ pc = "fallback"
    /\ IF RangeHasNext(cfg, Len(fallback_configs))
         THEN cfg' = cfg + 1 /\ pc' = "fallback_call"
         ELSE cfg' = cfg /\ pc' = "download"
    /\ UNCHANGED << params, symbol, attempt, df, result, log, sleeps, sent >>

\* Mutant: the fallback call is made with the caller's period and interval.
FallbackCallHonoursRequest ==
    /\ pc = "fallback_call"
    /\ log' = Append(log, Call("fallback", cfg, symbol, request.period,
                               request.interval, FALSE))
    /\ sent' = 1
    /\ pc' = "fallback_wait"
    /\ UNCHANGED << params, symbol, attempt, cfg, df, result, sleeps >>

\* lines 60-62: yf.Ticker(symbol).history(**config)
FallbackCall ==
    /\ pc = "fallback_call"
    /\ log' = Append(log, Call("fallback", cfg, symbol, fallback_configs[cfg].period,
                               fallback_configs[cfg].interval, FALSE))
    /\ sent' = 1
    /\ pc' = "fallback_wait"
    /\ UNCHANGED << params, symbol, attempt, cfg, df, result, sleeps >>

\* lines 62-66
FallbackReturn(d) ==
    /\ pc = "fallback_wait"
    /\ df' = d
    /\ log' = Answer(Classify(d))
    /\ IF ~DfEmpty(d)
         THEN result' = Frame(d) /\ pc' = "done"
         ELSE result' = result /\ pc' = "fallback_sleep"
    /\ UNCHANGED << params, symbol, attempt, cfg, sleeps, sent >>

\* lines 68-69
FallbackRaise(e) ==
    /\ pc = "fallback_wait"
    /\ CanRaise(e)
    /\ log' = Answer("raise")
    /\ pc' = IF Catches(e) THEN "fallback_sleep" ELSE "raised"
    /\ UNCHANGED << params, symbol, attempt, cfg, df, result, sleeps, sent >>

\* line 62: the provider never responds and no timeout ends the call
FallbackHang ==
    /\ pc = "fallback_wait"
    /\ log[Len(log)].timeout = NoTimeout
    /\ pc' = "hung"
    /\ UNCHANGED << params, symbol, attempt, cfg, df, result, log, sleeps, sent >>

\* Mutant: after the sleep the loop over the configs is left (a `break`).
FallbackSleepBreaks ==
    /\ pc = "fallback_sleep"
    /\ sleeps' = Append(sleeps, Sleep("fallback", 2))
    /\ pc' = "download"
    /\ UNCHANGED << params, symbol, attempt, cfg, df, result, log, sent >>

\* Mutant: after the sleep the same config is tried again.
FallbackSleepRetries ==
    /\ pc = "fallback_sleep"
    /\ sleeps' = Append(sleeps, Sleep("fallback", 2))
    /\ pc' = "fallback_call"
    /\ UNCHANGED << params, symbol, attempt, cfg, df, result, log, sent >>

\* Mutant: no sleep after the last config (the sleep sits in an `else`).
FallbackSleepSkipsLast ==
    /\ pc = "fallback_sleep"
    /\ sleeps' = IF cfg < 3 THEN Append(sleeps, Sleep("fallback", 2)) ELSE sleeps
    /\ pc' = "fallback_sleeping"
    /\ UNCHANGED << params, symbol, attempt, cfg, df, result, log, sent >>

\* line 71
FallbackSleep ==
    /\ pc = "fallback_sleep"
    /\ sleeps' = Append(sleeps, Sleep("fallback", FallbackPause))
    /\ pc' = "fallback_sleeping"
    /\ UNCHANGED << params, symbol, attempt, cfg, df, result, log, sent >>

\* line 71: time.sleep(2) returns
FallbackWake ==
    /\ pc = "fallback_sleeping"
    /\ pc' = "fallback"
    /\ UNCHANGED << params, symbol, attempt, cfg, df, result, log, sleeps, sent >>

\* lines 74-76: yf.download(symbol, period="1mo", interval="1d")
DownloadCall ==
    /\ pc = "download"
    /\ log' = Append(log, Call("download", 1, symbol, "1mo", "1d", FALSE))
    /\ sent' = 1
    /\ pc' = "download_wait"
    /\ UNCHANGED << params, symbol, attempt, cfg, df, result, sleeps >>

\* lines 76-80
DownloadReturn(d) ==
    /\ pc = "download_wait"
    /\ df' = d
    /\ log' = Answer(Classify(d))
    /\ IF ~DfEmpty(d)
         THEN result' = Frame(d) /\ pc' = "done"
         ELSE result' = result /\ pc' = "final"
    /\ UNCHANGED << params, symbol, attempt, cfg, sleeps, sent >>

\* lines 82-83
DownloadRaise(e) ==
    /\ pc = "download_wait"
    /\ CanRaise(e)
    /\ log' = Answer("raise")
    /\ pc' = IF Catches(e) THEN "final" ELSE "raised"
    /\ UNCHANGED << params, symbol, attempt, cfg, df, result, sleeps, sent >>

\* line 76: the provider never responds and no timeout ends the call
DownloadHang ==
    /\ pc = "download_wait"
    /\ log[Len(log)].timeout = NoTimeout
    /\ pc' = "hung"
    /\ UNCHANGED << params, symbol, attempt, cfg, df, result, log, sleeps, sent >>

\* lines 85-86
FinalReturn ==
    /\ pc = "final"
    /\ result' = NoneValue
    /\ pc' = "done"
    /\ UNCHANGED << params, symbol, attempt, cfg, df, log, sleeps, sent >>

Next ==
    \/ Normalize
    \/ PrimaryLoop
    \/ PrimaryCall
    \/ \E d \in Frames : PrimaryReturn(d)
    \/ \E st \in RetryStatuses : PrimaryTransportRetry(st, NoHeader)
    \/ TransportWake
    \/ \E e \in AdapterErrors : PrimaryRaise(e)
    \/ PrimaryHang
    \/ Backoff
    \/ BackoffWake
    \/ FallbackLoop
    \/ FallbackCall
    \/ \E d \in Frames : FallbackReturn(d)
    \/ \E e \in AdapterErrors : FallbackRaise(e)
    \/ FallbackHang
    \/ FallbackSleep
    \/ FallbackWake
    \/ DownloadCall
    \/ \E d \in Frames : DownloadReturn(d)
    \/ \E e \in AdapterErrors : DownloadRaise(e)
    \/ DownloadHang
    \/ FinalReturn

Spec == Init /\ [][Next]_vars

----------------------------------------------------------------------------
\* The run in which every provider call fails but returns: it answers with an
\* empty DataFrame or raises, and the interpreter keeps executing the function.

NextFail ==
    \/ Normalize
    \/ PrimaryLoop
    \/ PrimaryCall
    \/ PrimaryReturn(NoFrame)
    \/ \E st \in RetryStatuses : PrimaryTransportRetry(st, NoHeader)
    \/ TransportWake
    \/ \E e \in AdapterErrors : PrimaryRaise(e)
    \/ Backoff
    \/ BackoffWake
    \/ FallbackLoop
    \/ FallbackCall
    \/ FallbackReturn(NoFrame)
    \/ \E e \in AdapterErrors : FallbackRaise(e)
    \/ FallbackSleep
    \/ FallbackWake
    \/ DownloadCall
    \/ DownloadReturn(NoFrame)
    \/ \E e \in AdapterErrors : DownloadRaise(e)
    \/ FinalReturn

FailSpec == Init /\ [][NextFail]_vars /\ WF_vars(NextFail)

\* One request of one or two primary attempts against a provider that
\* throttles: any retried answer may carry a Retry-After header.

RetryRequests == { [symbol |-> << "R" >>, period |-> "1mo", interval |-> "1d"] }

InitRetry ==
    /\ InitWith(RetryRequests)
    /\ ~capability
    /\ max_retries \in {1, 2}
    /\ pause = 3

NextRetry ==
    \/ Normalize
    \/ PrimaryLoop
    \/ PrimaryCall
    \/ \E d \in Frames : PrimaryReturn(d)
    \/ \E st \in RetryStatuses, h \in RetryAfterHeaders : PrimaryTransportRetry(st, h)
    \/ TransportWake
    \/ \E e \in AdapterErrors : PrimaryRaise(e)
    \/ PrimaryHang
    \/ Backoff
    \/ BackoffWake
    \/ FallbackLoop
    \/ FallbackCall
    \/ \E d \in Frames : FallbackReturn(d)
    \/ \E e \in AdapterErrors : FallbackRaise(e)
    \/ FallbackHang
    \/ FallbackSleep
    \/ FallbackWake
    \/ DownloadCall
    \/ \E d \in Frames : DownloadReturn(d)
    \/ \E e \in AdapterErrors : DownloadRaise(e)
    \/ DownloadHang
    \/ FinalReturn

SpecRetry == InitRetry /\ [][NextRetry]_vars

\* The normalization alone, over every symbol of at most MaxSymLen characters.

NormRequests ==
    { [symbol |-> s, period |-> "1mo", interval |-> "1d"] :
        s \in SeqsUpTo(Alphabet, MaxSymLen) }

InitNorm == InitWith(NormRequests)

NextNorm == Normalize

SpecNorm == InitNorm /\ [][NextNorm]_vars

----------------------------------------------------------------------------
\* Vocabulary of the properties

Failed == {"empty", "raise"}

AllOutcome(calls, S) == \A i \in DOMAIN calls : calls[i].outcome \in S

SecondaryCalls == Len(FallbackCalls) + Len(DownloadCalls)

LastCall == log[Len(log)]

----------------------------------------------------------------------------
\* C1: when every primary attempt returns EMPTY and the secondary (the first
\* fallback source) returns a non-empty Series, the function returns that
\* Series after exactly max_retries primary attempts and exactly one
\* secondary attempt.
C1_SecondaryAfterPrimaryEmpty ==
    ( /\ pc = "done"
      /\ max_retries >= 0
      /\ AllOutcome(PrimaryCalls, {"empty"})
      /\ FallbackCalls # << >>
      /\ FallbackCalls[1].outcome = "series" )
    => /\ Len(PrimaryCalls) = max_retries
       /\ SecondaryCalls = 1
       /\ LastCall.kind = "fallback"
       /\ result = Frame(df)
       /\ Len(result.rows) > 0

C1_Witness ==
    /\ pc = "done"
    /\ max_retries = MaxRetries
    /\ Len(PrimaryCalls) = MaxRetries
    /\ AllOutcome(PrimaryCalls, {"empty"})
    /\ Len(FallbackCalls) = 1
    /\ FallbackCalls[1].outcome = "series"
    /\ result.tag = "DataFrame"

\* C2: when every provider call fails but returns, every run terminates in
\* the exhausted state and returns None, for every max_retries >= 0.
C2_TerminatesExhausted ==
    (max_retries >= 0) => <>(pc = "done" /\ result = NoneValue)

C2_Witness ==
    /\ pc = "done"
    /\ result = NoneValue
    /\ max_retries = MaxRetries
    /\ \E i \in DOMAIN log : log[i].outcome = "raise"
    /\ \E i \in DOMAIN log : log[i].outcome = "empty"

\* C3 (as claimed): with no credential configured and every primary attempt
\* EMPTY, no fallback or download call is ever issued and the result is None.
C3_NoSecondaryWhenDisabled ==
    ( /\ ~capability
      /\ max_retries >= 1
      /\ Len(PrimaryCalls) = max_retries
      /\ AllOutcome(PrimaryCalls, {"empty"}) )
    => /\ SecondaryCalls = 0
       /\ (pc = "done" => result = NoneValue)

\* C4: a finished call returned a non-empty Series or None, never an
\* empty-but-present Series.
C4_NonEmptyOrNone ==
    pc = "done" =>
        \/ result = NoneValue
        \/ (result.tag = "DataFrame" /\ Len(result.rows) > 0)

C4_Witness ==
    /\ pc = "done"
    /\ result.tag = "DataFrame"
    /\ \E i \in DOMAIN log : log[i].kind = "primary" /\ log[i].outcome = "empty"
    /\ \E i \in DOMAIN log : log[i].kind = "fallback" /\ log[i].outcome = "empty"
    /\ LastCall.kind = "download"

\* C5: None is returned only after every primary attempt 1..max_retries,
\* every fallback config and the download call was made and failed.
C5_NoneOnlyWhenAllFailed ==
    (pc = "done" /\ result = NoneValue) =>
        /\ Len(PrimaryCalls) = Max(max_retries, 0)
        /\ \A i \in DOMAIN PrimaryCalls : PrimaryCalls[i].attempt = i
        /\ Len(FallbackCalls) = Len(fallback_configs)
        /\ \A i \in DOMAIN FallbackCalls :
              /\ FallbackCalls[i].attempt = i
              /\ FallbackCalls[i].period = fallback_configs[i].period
              /\ FallbackCalls[i].interval = fallback_configs[i].interval
        /\ Len(DownloadCalls) = 1
        /\ AllOutcome(log, Failed)

C5_Witness ==
    /\ pc = "done"
    /\ result = NoneValue
    /\ max_retries = MaxRetries
    /\ Len(log) = MaxRetries + Len(fallback_configs) + 1
    /\ LastCall.outcome = "raise"

\* C6 (as claimed): once the primary is exhausted the secondary is attempted
\* exactly once, whatever its outcome.
C6_SecondaryExactlyOnce ==
    (pc = "done" /\ SecondaryCalls >= 1) => SecondaryCalls = 1

\* C6 (amended): the repeated, backed-off attempts are the primary's alone;
\* each of the four fallback sources is attempted at most once and never
\* again whatever its outcome, so the fallback phase issues at most
\* Len(fallback_configs) + 1 calls.
C6_EachFallbackSourceOnce ==
    /\ \A i, j \in DOMAIN log :
          ( /\ i < j
            /\ log[i].kind # "primary"
            /\ log[i].kind = log[j].kind )
          => log[i].attempt < log[j].attempt
    /\ \A i \in DOMAIN FallbackCalls : FallbackCalls[i].attempt = i
    /\ Len(FallbackCalls) <= Len(fallback_configs)
    /\ Len(DownloadCalls) <= 1

C6_Witness ==
    /\ pc = "done"
    /\ Len(FallbackCalls) = Len(fallback_configs)
    /\ Len(DownloadCalls) = 1
    /\ \E i \in DOMAIN FallbackCalls : FallbackCalls[i].outcome = "empty"
    /\ \E i \in DOMAIN FallbackCalls : FallbackCalls[i].outcome = "raise"
    /\ Len(PrimaryCalls) = MaxRetries

\* C7: no exception escapes: whatever symbol and (period, interval) were
\* asked for and whichever call raised, the function never ends by raising.
C7_NoExceptionEscapes == pc # "raised"

C7_Witness ==
    /\ pc = "done"
    /\ request.period = "2y" /\ request.interval = "1m"
    /\ \E i \in DOMAIN log : log[i].kind = "primary" /\ log[i].outcome = "raise"
    /\ \E i \in DOMAIN log : log[i].kind = "fallback" /\ log[i].outcome = "raise"
    /\ \E i \in DOMAIN log : log[i].kind = "download" /\ log[i].outcome = "raise"

\* C8: normalization is idempotent; a symbol ending in ".NS" or starting
\* with "^" is unchanged, any other symbol gets ".NS" appended exactly once.
C8_NormalizeIdempotent ==
    /\ NormalizeSymbol(NormalizeSymbol(request.symbol)) = NormalizeSymbol(request.symbol)
    /\ pc = "loop" =>
          /\ NormalizeSymbol(symbol) = symbol
          /\ EndsWith(request.symbol, DotNS) => symbol = request.symbol
          /\ StartsWith(request.symbol, Caret) => symbol = request.symbol
          /\ ~(EndsWith(request.symbol, DotNS) \/ StartsWith(request.symbol, Caret))
                => /\ symbol = request.symbol \o DotNS
                   /\ Len(symbol) = Len(request.symbol) + Len(DotNS)

C8_Witness ==
    /\ pc = "loop"
    /\ request.symbol = << "R", "." >>
    /\ symbol = << "R", ".", ".", "N", "S" >>

\* C9: a request is strictly sequential: at most one call is in flight, a
\* call is issued only after every earlier one was answered, and no fallback
\* or download call is issued before all max_retries primary attempts have
\* completed with EMPTY or an error.
C9_Sequential ==
    /\ InFlight <= 1
    /\ \A i \in DOMAIN log : i < Len(log) => log[i].outcome # "pending"
    /\ \A i, j \in DOMAIN log :
          (i < j /\ log[j].kind = "primary") => log[i].kind = "primary"
    /\ SecondaryCalls >= 1 =>
          /\ Len(PrimaryCalls) = Max(max_retries, 0)
          /\ AllOutcome(PrimaryCalls, Failed)

C9_Witness ==
    /\ max_retries = MaxRetries
    /\ Len(PrimaryCalls) = MaxRetries
    /\ Len(FallbackCalls) = 2
    /\ InFlight = 1

\* C10 (as claimed): every provider call is made with a bounded timeout, so a
\* provider that never responds cannot make the function hang.
C10_EveryCallBounded ==
    /\ \A i \in DOMAIN log : log[i].timeout # NoTimeout
    /\ pc # "hung"

----------------------------------------------------------------------------
\* Row timestamps strictly increasing (hence no duplicates)
StrictlyAscending(rows) == \A i \in 1 .. Len(rows) - 1 : rows[i] < rows[i + 1]

\* C11 (as claimed): every returned Series is sorted strictly ascending by
\* timestamp with no duplicate timestamps, whatever order and multiplicity
\* of rows the provider returned.
C11_ReturnedSeriesSorted ==
    (pc = "done" /\ result.tag = "DataFrame") => StrictlyAscending(result.rows)

\* C12 (as claimed): one primary attempt sends exactly one request to the
\* provider, also when the provider answers 429/5xx.
C12_OneRequestPerAttempt ==
    (log # << >> /\ LastCall.kind = "primary") => sent = 1

\* C12 (amended): one primary attempt is exactly one ticker.history call, and
\* that call sends its request once plus once more for every answer the
\* Retry strategy retries (429/500/502/503/504, or 413/429/503 with a
\* Retry-After header), up to RetryTotal re-sends: between 1 and
\* 1 + RetryTotal requests per attempt.
C12_RequestsPerAttemptBounded ==
    /\ \A i \in DOMAIN PrimaryCalls : PrimaryCalls[i].attempt = i
    /\ pc \in {"primary_wait", "transport_sleeping", "backoff", "backoff_sleeping"} =>
          /\ Len(PrimaryCalls) = attempt
          /\ LastCall.kind = "primary"
    /\ (log # << >> /\ LastCall.kind = "primary") =>
          /\ sent >= 1
          /\ sent <= 4

C12_Witness ==
    /\ pc = "backoff"
    /\ LastCall.kind = "primary"
    /\ LastCall.outcome = "raise"
    /\ sent = 1 + RetryTotal

----------------------------------------------------------------------------
\* More vocabulary

\* The sleeps made at one site, in order
RECURSIVE SelectSite(_, _)
SelectSite(l, site) ==
    IF l = << >> THEN << >>
    ELSE IF Head(l).site = site THEN << Head(l) >> \o SelectSite(Tail(l), site)
         ELSE SelectSite(Tail(l), site)

BackoffSleeps  == SelectSite(sleeps, "backoff")
TransportSleeps == SelectSite(sleeps, "transport")
FallbackSleeps == SelectSite(sleeps, "fallback")

\* The fallback and download calls, in the order they were issued
RECURSIVE SelectSecondary(_)
SelectSecondary(l) ==
    IF l = << >> THEN << >>
    ELSE IF Head(l).kind # "primary" THEN << Head(l) >> \o SelectSecondary(Tail(l))
         ELSE SelectSecondary(Tail(l))

SecondaryLog == SelectSecondary(log)

FailedPrimaries ==
    Cardinality({ i \in DOMAIN log : log[i].kind = "primary" /\ log[i].outcome \in Failed })

\* C15: a primary attempt that returns a non-empty Series ends the call at
\* once: the Series is the result, and no attempt, sleep, fallback or
\* download follows it (the sleeps made so far are the backoffs after the
\* earlier attempts and those of the transport inside the calls).
C15_PrimarySeriesDelivered ==
    \A i \in DOMAIN log :
        (log[i].kind = "primary" /\ log[i].outcome = "series") =>
            /\ i = Len(log)
            /\ pc = "done"
            /\ result = Frame(df)
            /\ Len(result.rows) > 0
            /\ \A j \in DOMAIN sleeps :
                  IF sleeps[j].site = "transport"
                    THEN sleeps[j].after <= i
                    ELSE sleeps[j].site = "backoff" /\ sleeps[j].after < i
            /\ Len(BackoffSleeps) = i - 1

C15_Witness ==
    /\ pc = "done"
    /\ max_retries = MaxRetries
    /\ Len(log) = MaxRetries
    /\ LastCall.kind = "primary"
    /\ LastCall.outcome = "series"
    /\ Len(BackoffSleeps) = MaxRetries - 1
    /\ sleeps[Len(sleeps)].site = "transport"

\* C16: after a failed primary attempt k (EMPTY or exception alike) a sleep
\* of `pause` is made iff k < max_retries, and it precedes attempt k + 1; no
\* sleep follows the last attempt.  With max_retries >= 1 a run with n
\* failed attempts makes min(n, max_retries - 1) backoff sleeps, and never
\* more than max_retries attempts.
C16_BackoffBetweenAttempts ==
    LET calls  == PrimaryCalls
        naps   == BackoffSleeps
    IN
    /\ Len(calls) <= Max(max_retries, 0)
    /\ \A j \in DOMAIN naps :
          LET k == naps[j].after IN
          /\ naps[j].secs = pause
          /\ k = j
          /\ k < max_retries
          /\ log[k].kind = "primary"
          /\ log[k].attempt = k
          /\ log[k].outcome \in Failed
    /\ \A k \in DOMAIN calls :
          ( /\ calls[k].outcome \in Failed
            /\ (k < Len(log) \/ pc # "backoff") )
          => ( (\E j \in DOMAIN naps : naps[j].after = k)
               <=> k < max_retries )
    /\ \A k \in DOMAIN calls :
          k >= 2 => \E j \in DOMAIN naps : naps[j].after = k - 1
    /\ (max_retries >= 1 /\ pc # "backoff") =>
          Len(naps) = Min(FailedPrimaries, max_retries - 1)

C16_Witness ==
    /\ pc = "fallback"
    /\ max_retries = MaxRetries
    /\ Len(PrimaryCalls) = MaxRetries
    /\ PrimaryCalls[1].outcome = "empty"
    /\ PrimaryCalls[MaxRetries].outcome = "raise"
    /\ Len(BackoffSleeps) = MaxRetries - 1

\* C17: the symbol is normalized once, before the first call, and the request
\* does not change afterwards: every call carries the same normalized symbol,
\* every primary call the caller's period and interval.
C17_RequestImmutable ==
    /\ pc = "start" => log = << >>
    /\ pc # "start" =>
          /\ EndsWith(symbol, DotNS) \/ StartsWith(symbol, Caret)
          /\ symbol = request.symbol \/ symbol = request.symbol \o DotNS
    /\ \A i \in DOMAIN log :
          /\ log[i].symbol = symbol
          /\ log[i].kind = "primary" =>
                /\ log[i].period = request.period
                /\ log[i].interval = request.interval

C17_Witness ==
    /\ pc = "done"
    /\ request.symbol = << "R" >>
    /\ request.period = "1d"
    /\ max_retries = MaxRetries
    /\ Len(log) = MaxRetries + 4

\* C18: once the primary is exhausted the sources are tried in the order
\* history(5d,1d), history(1mo,1d), history(3mo,1wk), download(1mo,1d), each
\* at most once; the first non-empty result is returned and no later source
\* is called; a source is called only after every earlier one returned empty
\* or raised.
ExpectedSources ==
    << << "fallback", "5d", "1d" >>, << "fallback", "1mo", "1d" >>,
       << "fallback", "3mo", "1wk" >>, << "download", "1mo", "1d" >> >>

C18_FallbackPriorityOrder ==
    /\ LET tried == SecondaryLog IN
       /\ Len(tried) <= Len(ExpectedSources)
       /\ \A i \in DOMAIN tried :
             /\ << tried[i].kind, tried[i].period, tried[i].interval >>
                   = ExpectedSources[i]
             /\ i < Len(tried) => tried[i].outcome \in Failed
    /\ \A i \in DOMAIN log :
          (log[i].kind # "primary" /\ log[i].outcome = "series") =>
              /\ i = Len(log)
              /\ pc = "done"
              /\ result = Frame(df)

C18_Witness ==
    /\ pc = "done"
    /\ Len(SecondaryLog) = 4
    /\ SecondaryLog[1].outcome = "empty"
    /\ SecondaryLog[2].outcome = "raise"
    /\ SecondaryLog[4].outcome = "series"
    /\ result.tag = "DataFrame"

\* C19: only the primary calls carry the caller's period and interval; a
\* Series delivered by a fallback source was fetched with one of the fixed
\* configurations, whatever was requested, so its granularity may differ
\* from the requested one.
FixedConfigs == { << "5d", "1d" >>, << "1mo", "1d" >>, << "3mo", "1wk" >> }

C19_FallbackIgnoresRequest ==
    /\ \A i \in DOMAIN log :
          IF log[i].kind = "primary"
            THEN << log[i].period, log[i].interval >> = << request.period, request.interval >>
            ELSE /\ << log[i].period, log[i].interval >> \in FixedConfigs
                 /\ log[i].kind = "download" =>
                       << log[i].period, log[i].interval >> = << "1mo", "1d" >>
    /\ (pc = "done" /\ result.tag = "DataFrame" /\ LastCall.kind # "primary") =>
          /\ LastCall.outcome = "series"
          /\ result = Frame(df)
          /\ << LastCall.period, LastCall.interval >> \in FixedConfigs

C19_Witness ==
    /\ pc = "done"
    /\ result.tag = "DataFrame"
    /\ LastCall.kind = "fallback"
    /\ request.interval = "1m"
    /\ LastCall.interval = "1wk"
    /\ Len(PrimaryCalls) >= 1

\* Sleeps the transport made inside call k
TransportSleepsOf(k) ==
    Cardinality({ j \in DOMAIN sleeps :
                    sleeps[j].site = "transport" /\ sleeps[j].after = k })

\* Delays the Retry strategy can sleep: its backoffs, or a Retry-After header
TransportDelays ==
    { get_backoff_time(n) : n \in 2 .. RetryTotal } \cup (RetryAfterHeaders \ {NoHeader, 0})

\* C20 (as claimed): with max_retries >= 1 a run makes at most
\* max_retries + 4 calls and at most (max_retries - 1) + 3 sleeps; a 2-unit
\* sleep follows every fallback config that did not deliver, the third one
\* included, and no sleep follows the download call.
C20_BoundedWork ==
    /\ max_retries >= 1 =>
          /\ Len(log) <= max_retries + 4
          /\ Len(PrimaryCalls) <= max_retries
          /\ Len(FallbackCalls) <= 3
          /\ Len(DownloadCalls) <= 1
          /\ Len(sleeps) <= (max_retries - 1) + 3
    /\ \A j \in DOMAIN sleeps :
          /\ sleeps[j].after >= 1
          /\ log[sleeps[j].after].kind # "download"
          /\ sleeps[j].site = "fallback" =>
                /\ sleeps[j].secs = 2
                /\ log[sleeps[j].after].kind = "fallback"
                /\ log[sleeps[j].after].outcome \in Failed
    /\ \A i \in DOMAIN log :
          ( /\ log[i].kind = "fallback"
            /\ log[i].outcome \in Failed
            /\ (i < Len(log) \/ pc # "fallback_sleep") )
          => \E j \in DOMAIN sleeps :
                sleeps[j].site = "fallback" /\ sleeps[j].after = i
    /\ Len(FallbackSleeps) <= Len(FallbackCalls)

\* C20 (amended): with max_retries >= 1 a run makes at most max_retries + 4
\* calls and at most (max_retries - 1) + 3 sleeps of its own (lines 49 and
\* 71); on top of these the Retry strategy sleeps up to RetryTotal times
\* inside each primary call, so a run makes at most
\* (max_retries - 1) + 3 + RetryTotal * max_retries sleeps.  A 2-unit sleep
\* follows every fallback config that did not deliver, the third one
\* included, and no sleep follows the download call.
C20_BoundedWorkWithTransport ==
    /\ max_retries >= 1 =>
          /\ Len(log) <= max_retries + 4
          /\ Len(PrimaryCalls) <= max_retries
          /\ Len(FallbackCalls) <= 3
          /\ Len(DownloadCalls) <= 1
          /\ Len(BackoffSleeps) + Len(FallbackSleeps) <= (max_retries - 1) + 3
          /\ Len(sleeps) <= (max_retries - 1) + 3 + RetryTotal * max_retries
    /\ \A k \in DOMAIN log :
          /\ TransportSleepsOf(k) <= RetryTotal
          /\ log[k].kind # "primary" => TransportSleepsOf(k) = 0
    /\ \A j \in DOMAIN sleeps :
          /\ sleeps[j].after >= 1
          /\ log[sleeps[j].after].kind # "download"
          /\ sleeps[j].site = "fallback" =>
                /\ sleeps[j].secs = 2
                /\ log[sleeps[j].after].kind = "fallback"
                /\ log[sleeps[j].after].outcome \in Failed
          /\ sleeps[j].site = "transport" => sleeps[j].secs \in TransportDelays
    /\ \A i \in DOMAIN log :
          ( /\ log[i].kind = "fallback"
            /\ log[i].outcome \in Failed
            /\ (i < Len(log) \/ pc # "fallback_sleep") )
          => \E j \in DOMAIN sleeps :
                sleeps[j].site = "fallback" /\ sleeps[j].after = i
    /\ Len(FallbackSleeps) <= Len(FallbackCalls)

C20_Witness ==
    /\ pc = "done"
    /\ result = NoneValue
    /\ max_retries = 2
    /\ Len(log) = 6
    /\ Len(sleeps) = 4 + RetryTotal * 2
    /\ sleeps[Len(sleeps)].after = 5

----------------------------------------------------------------------------
\* The dashboard script (src/app.py): the main try of lines 246-525, with the
\* main metric and the top-stocks sidebar, each computing a delta from the
\* Close column of a history, and the auto-refresh that reruns the script.

fetchvars == << request, capability, symbol, max_retries, pause, pc, attempt,
                cfg, df, result, log, sleeps, sent, cur, peer >>

\* A Close column: the closing prices, oldest first
CloseColumns == SeqsUpTo(1..MaxPrice, MaxCloses)

\* app.py line 499
top_stocks == << "RELIANCE.NS", "TCS.NS", "HDFCBANK.NS", "INFY.NS", "ICICIBANK.NS" >>

\* app.py lines 258, 505: data['Close'][-1]
LastClose(c) == c[Len(c)]

\* Mutant: a single-row history takes 0 as its previous close.
PrevCloseDefaultsToZero(c, current) == IF Len(c) > 1 THEN c[Len(c) - 1] ELSE 0

\* app.py lines 259, 506: data['Close'][-2] if len(data) > 1 else current_price
PrevClose(c, current) == IF Len(c) > 1 THEN c[Len(c) - 1] ELSE current

\* app.py lines 261, 507: (change / prev) * 100, kept as an exact fraction
Percent(change, prev) == [num |-> change * 100, den |-> prev]

NoEntry == [shown |-> FALSE, current |-> 0, prev |-> 0,
            change_pct |-> Percent(0, 1)]

\* app.py line 520: time.sleep(60)
RefreshPause == 60

\* app.py lines 235, 245-249: the script reaches the main content area with
\* the "Auto Refresh (60s)" checkbox read; no local of the try is bound yet
DashStart(auto) ==
    [ pc |-> "load", auto_refresh |-> auto, data |-> << >>,
      current_price |-> 0, prev_close |-> 0,
      price_change |-> 0, price_change_pct |-> Percent(0, 1),
      i |-> 0, stock_data |-> << >>, entry |-> NoEntry, sleep |-> 0 ]

\* app.py lines 248-254: the history is loaded; an empty one stops the script
DashLoad(c) ==
    /\ dash.pc = "load"
    /\ dash' = [dash EXCEPT !.data = c,
                            !.pc = IF Len(c) = 0 THEN "stopped" ELSE "metric"]
    /\ UNCHANGED fetchvars

\* app.py lines 249-250, 523-525: the history call raises; `data` is never
\* bound, the handler of the main try shows the error and the metric and the
\* top-stocks loop are skipped
DashLoadRaise ==
    /\ dash.pc = "load"
    /\ dash' = [dash EXCEPT !.pc = "error"]
    /\ UNCHANGED fetchvars

\* app.py lines 257, 523-525: reading stock.info raises; the same handler
DashInfoRaise ==
    /\ dash.pc = "metric"
    /\ dash' = [dash EXCEPT !.pc = "error"]
    /\ UNCHANGED fetchvars

\* app.py lines 258-261
DashMetric ==
    /\ dash.pc = "metric"
    /\ LET current_price == LastClose(dash.data)
           prev_close    == PrevClose(dash.data, current_price)
           price_change  == current_price - prev_close
       IN dash' = [dash EXCEPT !.current_price = current_price,
                               !.prev_close = prev_close,
                               !.price_change = price_change,
                               !.price_change_pct = Percent(price_change, prev_close),
                               !.pc = "render"]
    /\ UNCHANGED fetchvars

\* app.py lines 263-498: the cards, the chart and the tables are rendered
DashRender ==
    /\ dash.pc = "render"
    /\ dash' = [dash EXCEPT !.pc = "top"]
    /\ UNCHANGED fetchvars

\* app.py lines 263-498, 523-525: a rendering line raises (a market cap or
\* P/E of stock.info that is not a number, lines 305 and 312); the handler
\* of the main try shows the error and the top-stocks loop never runs
DashRenderRaise ==
    /\ dash.pc = "render"
    /\ dash' = [dash EXCEPT !.pc = "error"]
    /\ UNCHANGED fetchvars

\* app.py lines 501-513: one iteration of the top-stocks loop whose history
\* call returns; an empty history shows nothing and leaves current, prev
\* and change_pct as they were
DashTopStock(c) ==
    /\ dash.pc = "top"
    /\ RangeHasNext(dash.i, Len(top_stocks))
    /\ LET current == LastClose(c)
           prev    == PrevClose(c, current)
       IN dash' = [dash EXCEPT
                     !.i = dash.i + 1,
                     !.stock_data = c,
                     !.entry = IF Len(c) # 0
                                 THEN [shown |-> TRUE, current |-> current,
                                       prev |-> prev,
                                       change_pct |-> Percent(current - prev, prev)]
                                 ELSE [dash.entry EXCEPT !.shown = FALSE]]
    /\ UNCHANGED fetchvars

\* app.py lines 503, 515-516: the history call raises before stock_data is
\* assigned; the bare except skips the stock, every local keeps the value
\* the previous iteration left
DashTopStockRaise ==
    /\ dash.pc = "top"
    /\ RangeHasNext(dash.i, Len(top_stocks))
    /\ dash' = [dash EXCEPT !.i = dash.i + 1, !.entry.shown = FALSE]
    /\ UNCHANGED fetchvars

\* app.py lines 501, 518-520: the loop over top_stocks ends; with auto
\* refresh on the script sleeps, else the try block is done
DashTopDone ==
    /\ dash.pc = "top"
    /\ ~RangeHasNext(dash.i, Len(top_stocks))
    /\ dash' = IF dash.auto_refresh
                 THEN [dash EXCEPT !.pc = "refresh_sleeping", !.sleep = RefreshPause]
                 ELSE [dash EXCEPT !.pc = "rendered"]
    /\ UNCHANGED fetchvars

\* app.py lines 520-521: the sleep returns and st.rerun() runs the script
\* again from the top, its locals unbound and the checkbox as it was
DashRerun ==
    /\ dash.pc = "refresh_sleeping"
    /\ dash' = DashStart(dash.auto_refresh)
    /\ UNCHANGED fetchvars

InitDash ==
    /\ request = [symbol |-> << "R" >>, period |-> "1mo", interval |-> "1d"]
    /\ capability = FALSE
    /\ symbol = request.symbol
    /\ max_retries = 0
    /\ pause = 0
    /\ pc = "not_called"
    /\ attempt = 0
    /\ cfg = 0
    /\ df = NoFrame
    /\ result = Unset
    /\ log = << >>
    /\ sleeps = << >>
    /\ sent = 0
    /\ cur = 1
    /\ peer = NoPeer
    /\ dash \in { DashStart(auto) : auto \in BOOLEAN }

NextDash ==
    \/ \E c \in CloseColumns : DashLoad(c)
    \/ DashLoadRaise
    \/ DashInfoRaise
    \/ DashMetric
    \/ DashRender
    \/ DashRenderRaise
    \/ \E c \in CloseColumns : DashTopStock(c)
    \/ DashTopStockRaise
    \/ DashTopDone
    \/ DashRerun

SpecDash == InitDash /\ [][NextDash]_vars

\* Lines 258-261 have run in this execution of the script
MetricComputed ==
    \/ dash.pc \in {"render", "top", "rendered", "refresh_sleeping"}
    \/ dash.pc = "error" /\ dash.current_price # 0

\* C14: the dashboard gates its delta on the length of the history: with one
\* row the previous close is the current price and the change is exactly 0;
\* with two rows or more the change is the last close minus the one before
\* it.  The same holds for the main metric and for every sidebar entry.
C14_DeltaGatedOnLength ==
    /\ MetricComputed =>
          LET n == Len(dash.data) IN
          /\ dash.current_price = dash.data[n]
          /\ IF n = 1
               THEN /\ dash.prev_close = dash.current_price
                    /\ dash.price_change = 0
                    /\ dash.price_change_pct.num = 0
               ELSE /\ dash.prev_close = dash.data[n - 1]
                    /\ dash.price_change = dash.data[n] - dash.data[n - 1]
                    /\ dash.price_change_pct =
                          [num |-> (dash.data[n] - dash.data[n - 1]) * 100,
                           den |-> dash.data[n - 1]]
    /\ (dash.pc \in {"top", "rendered", "refresh_sleeping"} /\ dash.entry.shown) =>
          LET n == Len(dash.stock_data) IN
          /\ n >= 1
          /\ dash.entry.current = dash.stock_data[n]
          /\ IF n = 1
               THEN /\ dash.entry.prev = dash.entry.current
                    /\ dash.entry.change_pct.num = 0
               ELSE /\ dash.entry.prev = dash.stock_data[n - 1]
                    /\ dash.entry.change_pct =
                          [num |-> (dash.stock_data[n] - dash.stock_data[n - 1]) * 100,
                           den |-> dash.stock_data[n - 1]]

C14_Witness ==
    /\ dash.pc = "top"
    /\ Len(dash.data) = 1
    /\ dash.price_change = 0
    /\ dash.i = Len(top_stocks)
    /\ dash.entry.shown
    /\ Len(dash.stock_data) = 1
    /\ dash.entry.change_pct.num = 0

----------------------------------------------------------------------------
\* Two concurrent invocations (threads) of fetch_yahoo_or_nse.  Everything
\* the function reads or writes is a parameter or a local of its own call
\* frame (the session of line 20 included), so a second invocation is a
\* second frame; the interpreter may switch between the two at any point,
\* in particular while one of them sleeps or waits for the provider.

\* The frame of the invocation that is currently running
Locals ==
    [ request |-> request, symbol |-> symbol, max_retries |-> max_retries,
      pause |-> pause, pc |-> pc, attempt |-> attempt, cfg |-> cfg, df |-> df,
      result |-> result, log |-> log, sleeps |-> sleeps, sent |-> sent ]

Terminal == {"done", "hung", "raised"}

Sleeping == {"backoff_sleeping", "transport_sleeping", "fallback_sleeping"}

\* Mutant: `df` is a module-level global, so it is not part of a frame.
SwitchSharedDf ==
    /\ peer.pc \notin Terminal \cup {"absent"}
    /\ cur' = 3 - cur
    /\ peer' = Locals
    /\ request' = peer.request
    /\ symbol' = peer.symbol
    /\ max_retries' = peer.max_retries
    /\ pause' = peer.pause
    /\ pc' = peer.pc
    /\ attempt' = peer.attempt
    /\ cfg' = peer.cfg
    /\ df' = df
    /\ result' = peer.result
    /\ log' = peer.log
    /\ sleeps' = peer.sleeps
    /\ sent' = peer.sent
    /\ UNCHANGED << capability, dash >>

\* The interpreter suspends the running invocation and resumes the other one.
Switch ==
    /\ peer.pc \notin Terminal \cup {"absent"}
    /\ cur' = 3 - cur
    /\ peer' = Locals
    /\ request' = peer.request
    /\ symbol' = peer.symbol
    /\ max_retries' = peer.max_retries
    /\ pause' = peer.pause
    /\ pc' = peer.pc
    /\ attempt' = peer.attempt
    /\ cfg' = peer.cfg
    /\ df' = peer.df
    /\ result' = peer.result
    /\ log' = peer.log
    /\ sleeps' = peer.sleeps
    /\ sent' = peer.sent
    /\ UNCHANGED << capability, dash >>

\* DataFrames the provider answers with in the two-invocation runs
PairFrames == { << >>, << 2, 1 >> }

\* A frame at the entry of the function
Entry(sym, p, i, m, ps) ==
    [ request |-> [symbol |-> sym, period |-> p, interval |-> i],
      symbol |-> sym, max_retries |-> m, pause |-> ps, pc |-> "start",
      attempt |-> 0, cfg |-> 0, df |-> NoFrame, result |-> Unset,
      log |-> << >>, sleeps |-> << >>, sent |-> 0 ]

\* Two requests for different symbols, started together: the first makes
\* two primary attempts, the second goes straight to the fallback sources
InitPair ==
    /\ request = [symbol |-> << "R" >>, period |-> "1mo", interval |-> "1d"]
    /\ capability = FALSE
    /\ symbol = request.symbol
    /\ max_retries = 2
    /\ pause = 1
    /\ pc = "start"
    /\ attempt = 0
    /\ cfg = 0
    /\ df = NoFrame
    /\ result = Unset
    /\ log = << >>
    /\ sleeps = << >>
    /\ sent = 0
    /\ cur = 1
    /\ peer = Entry(<< "^", "N" >>, "1d", "1m", 0, 3)
    /\ dash = DashIdle

NextPair ==
    \/ Normalize
    \/ PrimaryLoop
    \/ PrimaryCall
    \/ \E d \in PairFrames : PrimaryReturn(d)
    \/ \E st \in RetryStatuses : PrimaryTransportRetry(st, NoHeader)
    \/ TransportWake
    \/ \E e \in AdapterErrors : PrimaryRaise(e)
    \/ PrimaryHang
    \/ Backoff
    \/ BackoffWake
    \/ FallbackLoop
    \/ FallbackCall
    \/ \E d \in PairFrames : FallbackReturn(d)
    \/ \E e \in AdapterErrors : FallbackRaise(e)
    \/ FallbackHang
    \/ FallbackSleep
    \/ FallbackWake
    \/ DownloadCall
    \/ \E d \in PairFrames : DownloadReturn(d)
    \/ \E e \in AdapterErrors : DownloadRaise(e)
    \/ DownloadHang
    \/ FinalReturn
    \/ Switch

SpecPair == InitPair /\ [][NextPair]_vars

\* The frame of invocation p, running or switched out
View(p) == IF cur = p THEN Locals ELSE peer

\* Every call of a frame carries that frame's own request
OwnCallsOnly(f) ==
    \A i \in DOMAIN f.log :
        /\ f.log[i].symbol = NormalizeSymbol(f.request.symbol)
        /\ f.log[i].kind = "primary" =>
              /\ f.log[i].period = f.request.period
              /\ f.log[i].interval = f.request.interval

\* C13: two concurrent invocations for different symbols share no mutable
\* state: a frame changes only by a step of its own invocation, and that
\* step is a step of the function run alone (so its calls and its result are
\* those of the solo run with the same provider answers); and while one
\* invocation sleeps the other can be resumed.
C13_ConcurrentInvocationsIsolated ==
    /\ [][ \A p \in {1, 2} :
             View(p)' # View(p) => (cur = p /\ cur' = p /\ Next) ]_vars
    /\ [](\A p \in {1, 2} : OwnCallsOnly(View(p)))
    /\ []((pc \in Sleeping /\ peer.pc \notin Terminal) => ENABLED Switch)

C13_Witness ==
    /\ cur = 2
    /\ pc = "fallback_wait"
    /\ peer.pc = "backoff_sleeping"
    /\ Len(peer.log) = 1
    /\ Len(log) = 2
    /\ peer.request.symbol = << "R" >>

----------------------------------------------------------------------------
\* C21: with max_retries <= 0 the primary is never called and no backoff
\* sleep is made: the first call is the first fallback config, and the
\* result is the first non-empty fallback or download answer, or None when
\* all four failed.
C21_NoPrimaryWithoutRetries ==
    max_retries <= 0 =>
        /\ PrimaryCalls = << >>
        /\ BackoffSleeps = << >>
        /\ attempt = 0
        /\ pc \notin {"primary", "primary_wait", "transport_sleeping", "backoff",
                     "backoff_sleeping"}
        /\ log # << >> =>
              /\ log[1].kind = "fallback"
              /\ log[1].period = "5d" /\ log[1].interval = "1d"
        /\ \A j \in DOMAIN sleeps : sleeps[j].site = "fallback"
        /\ pc = "done" =>
              /\ log # << >>
              /\ IF LastCall.outcome = "series"
                   THEN result = Frame(df) /\ Len(result.rows) > 0
                   ELSE /\ result = NoneValue
                        /\ Len(log) = 4
                        /\ AllOutcome(log, Failed)

C21_Witness ==
    /\ max_retries = -1
    /\ pc = "done"
    /\ Len(log) = 2
    /\ log[1].kind = "fallback" /\ log[1].outcome = "empty"
    /\ log[2].outcome = "series"
    /\ result.tag = "DataFrame"
    /\ Len(sleeps) = 1

====
